---- MODULE Spec2Model ----
(***************************************************************************)
(* Budgeting_Calculator: the statement loader, the monthly and category    *)
(* aggregations, money formatting, the main pipeline (src/main.py) and the *)
(* yearly metrics query (src/agent_yearly_report.py).                      *)
(*                                                                         *)
(* A decimal.Decimal is carried as its coefficient and its number of       *)
(* fractional digits: [c |-> -1005, e |-> 3] is Decimal('-1.005').  A data *)
(* frame is the sequence of its rows, each row a record of its columns.    *)
(* An optional argument (top_n) is a sequence of length 0 (None) or 1.     *)
(***************************************************************************)
EXTENDS Integers, Sequences, FiniteSets, TLC

VARIABLES
    op,               \* the operation applied last ("none" before any)
    csv_columns,      \* header of the statement file
    csv_rows,         \* its data rows
    error,            \* the exception raised, or NoError
    txns,             \* the transaction frame
    include_credits,  \* argument of monthly_spend_summary
    top_n,            \* argument of monthly_category_breakdown
    monthly,          \* monthly rollup frame
    breakdown,        \* category breakdown frame
    frame,            \* argument of format_money_columns / cents_to_dollars
    formatted,        \* its result
    views,     \* the store's views: name -> rows
    saved,            \* output file -> frame written by save_df
    db,               \* the store: [transactions, merchants]
    year,             \* argument of load_year_metrics
    queried,          \* its four query results, in integer cents
    metrics,          \* the dict it returns, in dollars
    card_name,        \* argument of load_chase_statement
    cols,             \* argument of format_money_columns
    cents,            \* argument of cents_to_dollars
    dollars,          \* its result
    pc                \* position of the main pipeline

vars == <<op, csv_columns, csv_rows, error, txns, include_credits, top_n,
          monthly, breakdown, frame, formatted, views, saved,
          db, year, queried, metrics, card_name, cols, cents, dollars, pc>>

----------------------------------------------------------------------------
(* Bounds of the model *)

MaxTxns == 3
MaxTopN == 2

----------------------------------------------------------------------------
(* Generic helpers *)

Max(a, b) == IF a >= b THEN a ELSE b

Abs(a) == IF a < 0 THEN -a ELSE a

RECURSIVE Pow10(_)
Pow10(n) == IF n = 0 THEN 1 ELSE 10 * Pow10(n - 1)

Range(s) == {s[i] : i \in DOMAIN s}

SeqsUpTo(S, n) == UNION {[1..k -> S] : k \in 0..n}

\* Python's str ordering (by code point), restricted to the strings the model
\* uses: digits sort before upper-case letters.
StrOrder == <<"2024-01", "2024-02", "A", "B", "Other", "Uncategorized">>

StrIndex(s) == CHOOSE i \in DOMAIN StrOrder : StrOrder[i] = s

StrLess(a, b) == StrIndex(a) < StrIndex(b)

----------------------------------------------------------------------------
(* decimal.Decimal *)

Dec(c, e) == [c |-> c, e |-> e]

\* The coefficient of x at E fractional digits (E >= x.e).
Scaled(x, E) == x.c * Pow10(E - x.e)

DecAdd(a, b) ==
    LET E == Max(a.e, b.e) IN Dec(Scaled(a, E) + Scaled(b, E), E)

DecMul(a, b) == Dec(a.c * b.c, a.e + b.e)

DecLess(a, b) ==
    LET E == Max(a.e, b.e) IN Scaled(a, E) < Scaled(b, E)

DecEq(a, b) ==
    LET E == Max(a.e, b.e) IN Scaled(a, E) = Scaled(b, E)

\* Python's sum(): starts from the int 0 and adds left to right.
RECURSIVE PySum(_)
PySum(s) ==
    IF s = <<>> THEN Dec(0, 0)
    ELSE DecAdd(PySum(SubSeq(s, 1, Len(s) - 1)), s[Len(s)])

RECURSIVE Gcd(_, _)
Gcd(a, b) == IF b = 0 THEN a ELSE Gcd(b, a % b)

\* Decimal / int.  The quotient is carried as the exact ratio num/den in
\* lowest terms (den > 0); the decimal context keeps 28 significant digits
\* of it, more than any later rounding to cents can tell apart.
DecDiv(a, n) ==
    LET den == Pow10(a.e) * n
        g   == Gcd(Abs(a.c), den)
    IN  [num |-> a.c \div g, den |-> den \div g]

----------------------------------------------------------------------------
(* Aggregator: monthly_spend_summary and monthly_category_breakdown *)

Zero == Dec(0, 0)

MinusOne == Dec(-1, 0)

\* Mutant of DebitsOnly: df[df["amount"] <= 0], zero amounts counted as
\* spending.
DebitsOnly_NonPositive(t) == SelectSeq(t, LAMBDA r : ~DecLess(Zero, r.amount))

\* monthly_spend_summary: df[df["amount"] < 0]
DebitsOnly(t) == SelectSeq(t, LAMBDA r : DecLess(r.amount, Zero))

\* Mutant of NegativeAmounts: txns[txns["amount"] <= 0].
NegativeAmounts_NonPositive(t) ==
    SelectSeq(t, LAMBDA r : ~DecLess(Zero, r.amount))

\* monthly_category_breakdown: txns[txns["amount"] < 0]
NegativeAmounts(t) == SelectSeq(t, LAMBDA r : DecLess(r.amount, Zero))

\* The keys of a groupby, ascending (groupby sorts its keys).
RECURSIVE SortedMonths(_)
SortedMonths(S) ==
    IF S = {} THEN <<>>
    ELSE LET m == CHOOSE x \in S : \A y \in S : ~StrLess(y, x)
         IN  <<m>> \o SortedMonths(S \ {m})

PairLess(p, q) ==
    StrLess(p[1], q[1]) \/ (p[1] = q[1] /\ StrLess(p[2], q[2]))

RECURSIVE SortedPairs(_)
SortedPairs(S) ==
    IF S = {} THEN <<>>
    ELSE LET m == CHOOSE x \in S : \A y \in S : ~PairLess(y, x)
         IN  <<m>> \o SortedPairs(S \ {m})

AmountsOf(g) == [i \in DOMAIN g |-> g[i].amount]

\* lambda s: sum(s) * Decimal('-1')
NegatedSum(g) == DecMul(PySum(AmountsOf(g)), MinusOne)

\* df.groupby("month", as_index=False).agg(total_spend=..., txn_count=size)
GroupByMonth(df) ==
    LET keys == SortedMonths({df[i].month : i \in DOMAIN df})
    IN  [k \in DOMAIN keys |->
            LET g == SelectSeq(df, LAMBDA r : r.month = keys[k])
            IN  [month |-> keys[k],
                 total_spend |-> NegatedSum(g),
                 txn_count |-> Len(g)]]

\* .sort_values("month")
RECURSIVE InsertByMonth(_, _)
InsertByMonth(s, x) ==
    IF s = <<>> THEN <<x>>
    ELSE IF StrLess(x.month, Head(s).month) THEN <<x>> \o s
    ELSE <<Head(s)>> \o InsertByMonth(Tail(s), x)

RECURSIVE SortByMonth(_)
SortByMonth(s) ==
    IF s = <<>> THEN <<>>
    ELSE InsertByMonth(SortByMonth(SubSeq(s, 1, Len(s) - 1)), s[Len(s)])

monthly_spend_summary(t, credits) ==
    LET df      == IF credits THEN t ELSE DebitsOnly(t)
        summary == SortByMonth(GroupByMonth(df))
    IN  [i \in DOMAIN summary |->
            [month |-> summary[i].month,
             total_spend |-> summary[i].total_spend,
             txn_count |-> summary[i].txn_count,
             avg_per_transaction |->
                 DecDiv(summary[i].total_spend, summary[i].txn_count)]]

\* df.groupby(["month", "category"], as_index=False).agg(spend=..., txn_count=size)
GroupByMonthCategory(df) ==
    LET keys == SortedPairs({<<df[i].month, df[i].category>> : i \in DOMAIN df})
    IN  [k \in DOMAIN keys |->
            LET g == SelectSeq(df, LAMBDA r :
                         r.month = keys[k][1] /\ r.category = keys[k][2])
            IN  [month |-> keys[k][1],
                 category |-> keys[k][2],
                 spend |-> NegatedSum(g),
                 txn_count |-> Len(g)]]

\* .sort_values(["month", "spend"], ascending=[True, False]): a stable sort,
\* rows equal in both keys keep their order.
MonthSpendBefore(x, y) ==
    StrLess(x.month, y.month) \/ (x.month = y.month /\ DecLess(y.spend, x.spend))

RECURSIVE InsertMonthSpend(_, _)
InsertMonthSpend(s, x) ==
    IF s = <<>> THEN <<x>>
    ELSE IF MonthSpendBefore(x, Head(s)) THEN <<x>> \o s
    ELSE <<Head(s)>> \o InsertMonthSpend(Tail(s), x)

RECURSIVE SortMonthSpend(_)
SortMonthSpend(s) ==
    IF s = <<>> THEN <<>>
    ELSE InsertMonthSpend(SortMonthSpend(SubSeq(s, 1, Len(s) - 1)), s[Len(s)])

\* breakdown.apply(lambda row: row["spend"] / row["txn_count"], axis=1)
WithAverage(b) ==
    [i \in DOMAIN b |->
        [month |-> b[i].month,
         category |-> b[i].category,
         spend |-> b[i].spend,
         txn_count |-> b[i].txn_count,
         avg_per_transaction |-> DecDiv(b[i].spend, b[i].txn_count)]]

\* Mutant of RankInMonth: rank(method="min"), tied rows share a rank.
RankInMonth_Min(b, i) ==
    1 + Cardinality({j \in DOMAIN b :
            /\ b[j].month = b[i].month
            /\ DecLess(b[i].spend, b[j].spend)})

\* Mutant of RankInMonth: ties ranked in reverse frame order.
RankInMonth_LastFirst(b, i) ==
    1 + Cardinality({j \in DOMAIN b :
            /\ b[j].month = b[i].month
            /\ \/ DecLess(b[i].spend, b[j].spend)
               \/ (DecEq(b[i].spend, b[j].spend) /\ j > i)})

\* groupby("month")["spend"].rank(method="first", ascending=False): one more
\* than the rows of the month with a larger spend, ties in frame order.
RankInMonth(b, i) ==
    1 + Cardinality({j \in DOMAIN b :
            /\ b[j].month = b[i].month
            /\ \/ DecLess(b[i].spend, b[j].spend)
               \/ (DecEq(b[i].spend, b[j].spend) /\ j < i)})

\* Mutant of TopIndices: rank_in_month < top_n.
TopIndices_Strict(b, n) == {i \in DOMAIN b : RankInMonth(b, i) < n}

\* breakdown[breakdown["rank_in_month"] <= top_n]
TopIndices(b, n) == {i \in DOMAIN b : RankInMonth(b, i) <= n}

\* breakdown[breakdown["rank_in_month"] > top_n]
RestIndices(b, n) == {i \in DOMAIN b : RankInMonth(b, i) > n}

RECURSIVE Pick(_, _)
Pick(b, I) ==
    IF I = {} THEN <<>>
    ELSE LET m == CHOOSE i \in I : \A j \in I : i <= j
         IN  <<b[m]>> \o Pick(b, I \ {m})

RECURSIVE IntSum(_)
IntSum(s) == IF s = <<>> THEN 0 ELSE s[1] + IntSum(Tail(s))

\* rest.groupby("month", as_index=False).agg(spend=sum, txn_count="sum"),
\* category "Other", the average recomputed from the sums
OtherRows(rest) ==
    LET keys == SortedMonths({rest[i].month : i \in DOMAIN rest})
    IN  [k \in DOMAIN keys |->
            LET g     == SelectSeq(rest, LAMBDA r : r.month = keys[k])
                spend == PySum([i \in DOMAIN g |-> g[i].spend])
                count == IntSum([i \in DOMAIN g |-> g[i].txn_count])
            IN  [month |-> keys[k],
                 category |-> "Other",
                 spend |-> spend,
                 txn_count |-> count,
                 avg_per_transaction |-> DecDiv(spend, count)]]

monthly_category_breakdown(t, n) ==
    LET df == NegativeAmounts(t)
        b  == WithAverage(SortMonthSpend(GroupByMonthCategory(df)))
    IN  IF n = <<>> THEN b
        ELSE LET top  == Pick(b, TopIndices(b, n[1]))
                 rest == Pick(b, RestIndices(b, n[1]))
             IN  IF rest # <<>>
                 THEN SortMonthSpend(top \o OtherRows(rest))
                 ELSE SortMonthSpend(top)

----------------------------------------------------------------------------
(* The aggregator applied to every small transaction frame *)

Months == {"2024-01", "2024-02"}

Categories == {"A", "B", "Other"}

\* -10.0, -5.0, 0.0 and 20.0, as Decimal(str(x)) of the parsed float
RollupAmounts == {Dec(-100, 1), Dec(-50, 1), Dec(0, 1), Dec(200, 1)}

RollupRows == [month : Months, category : Categories, amount : RollupAmounts]

\* -10.0, -5.0 and 20.0
BreakdownAmounts == {Dec(-100, 1), Dec(-50, 1), Dec(200, 1)}

BreakdownRows ==
    [month : Months, category : Categories, amount : BreakdownAmounts]

TopNs == {<<>>} \cup {<<k>> : k \in 0..MaxTopN}

NoError == [type |-> "none"]

\* The variables of the other components, at rest.
NoFile ==
    /\ csv_columns = {}
    /\ csv_rows = <<>>
    /\ card_name = <<>>
    /\ error = NoError

NoFormat ==
    /\ frame = <<>>
    /\ cols = {}
    /\ formatted = <<>>
    /\ cents = <<>>
    /\ dollars = <<>>

NoStore ==
    /\ db = <<>>
    /\ year = 0
    /\ queried = <<>>
    /\ metrics = <<>>

NoPipeline ==
    /\ pc = "idle"
    /\ views = <<>>
    /\ saved = <<>>

Idle == NoFile /\ NoFormat /\ NoStore /\ NoPipeline

NotCalled ==
    /\ op = "none"
    /\ include_credits = FALSE
    /\ top_n = <<>>
    /\ monthly = <<>>
    /\ breakdown = <<>>

InitRollup ==
    /\ txns \in SeqsUpTo(RollupRows, MaxTxns)
    /\ NotCalled
    /\ Idle

MonthlySpendSummary ==
    /\ op = "none"
    /\ \E credits \in BOOLEAN :
        /\ include_credits' = credits
        /\ monthly' = monthly_spend_summary(txns, credits)
    /\ op' = "monthly_spend_summary"
    /\ UNCHANGED <<csv_columns, csv_rows, error, txns, top_n, breakdown, frame,
                   formatted, views, saved, db, year, queried, metrics,
                   card_name, cols, cents, dollars, pc>>

NextRollup == MonthlySpendSummary

SpecRollup == InitRollup /\ [][NextRollup]_vars

InitBreakdown ==
    /\ txns \in SeqsUpTo(BreakdownRows, MaxTxns)
    /\ NotCalled
    /\ Idle

MonthlyCategoryBreakdown ==
    /\ op = "none"
    /\ \E n \in TopNs :
        /\ top_n' = n
        /\ breakdown' = monthly_category_breakdown(txns, n)
    /\ op' = "monthly_category_breakdown"
    /\ UNCHANGED <<csv_columns, csv_rows, error, txns, include_credits, monthly,
                   frame, formatted, views, saved, db, year, queried,
                   metrics, card_name, cols, cents, dollars, pc>>

NextBreakdown == MonthlyCategoryBreakdown

SpecBreakdown == InitBreakdown /\ [][NextBreakdown]_vars

----------------------------------------------------------------------------
(* Properties of the aggregator, stated over the transactions themselves *)

\* The exact value of a Decimal in units of 1/10000.
InUnits(x) == x.c * Pow10(4 - x.e)

\* The rows of month m that are spending (amount < 0), and all its rows.
DebitIdx(m) == {i \in DOMAIN txns : txns[i].month = m /\ txns[i].amount.c < 0}

MonthIdx(m) == {i \in DOMAIN txns : txns[i].month = m}

RECURSIVE SumAbsUnits(_)
SumAbsUnits(I) ==
    IF I = {} THEN 0
    ELSE LET i == CHOOSE j \in I : TRUE
         IN  Abs(InUnits(txns[i].amount)) + SumAbsUnits(I \ {i})

RowsOf(b, m) == SelectSeq(b, LAMBDA r : r.month = m)

RECURSIVE SpendUnits(_)
SpendUnits(rows) ==
    IF rows = <<>> THEN 0 ELSE InUnits(rows[1].spend) + SpendUnits(Tail(rows))

RECURSIVE CountSum(_)
CountSum(rows) ==
    IF rows = <<>> THEN 0 ELSE rows[1].txn_count + CountSum(Tail(rows))

Remove(s, i) == SubSeq(s, 1, i - 1) \o SubSeq(s, i + 1, Len(s))

\* The breakdown of the same transactions without a top_n bound.
Unbounded == monthly_category_breakdown(txns, <<>>)

\* C1: without credits, the monthly rollup has exactly one row per month that
\* has spending, months ascending; total_spend is the sum of the absolute
\* values of the month's negative amounts, txn_count the number of those rows
\* and avg_per_transaction their quotient; credits contribute nothing.
C1_MonthlyRollup ==
    (op = "monthly_spend_summary" /\ ~include_credits) =>
        /\ \A i \in 1..(Len(monthly) - 1) :
               StrLess(monthly[i].month, monthly[i + 1].month)
        /\ {monthly[i].month : i \in DOMAIN monthly}
               = {m \in Months : DebitIdx(m) # {}}
        /\ \A i \in DOMAIN monthly :
               LET r == monthly[i]
                   I == DebitIdx(r.month)
               IN  /\ InUnits(r.total_spend) = SumAbsUnits(I)
                   /\ r.txn_count = Cardinality(I)
                   /\ r.avg_per_transaction.num * Cardinality(I) * Pow10(4)
                          = SumAbsUnits(I) * r.avg_per_transaction.den

\* The spec's example: -10.00 and -5.00 and a credit in one month give 15.00
\* over 2 transactions.
C1_Witness ==
    /\ op = "monthly_spend_summary"
    /\ ~include_credits
    /\ \E i \in DOMAIN monthly :
           /\ InUnits(monthly[i].total_spend) = 150000
           /\ monthly[i].txn_count = 2
           /\ \E j \in MonthIdx(monthly[i].month) : txns[j].amount.c > 0

\* C2: with top_n = k every month has at most k + 1 rows, and the month's
\* rows sum to the same spend and the same txn_count as the month's rows of
\* the unbounded breakdown.
C2_TopNBounded ==
    (op = "monthly_category_breakdown" /\ top_n # <<>>) =>
        LET u == Unbounded
        IN  \A m \in Months :
            LET got  == RowsOf(breakdown, m)
                full == RowsOf(u, m)
            IN  /\ Len(got) <= top_n[1] + 1
                /\ SpendUnits(got) = SpendUnits(full)
                /\ CountSum(got) = CountSum(full)

\* A month of three categories under top_n = 1: one category kept and the
\* other two merged into one "Other" row.
C2_Witness ==
    /\ op = "monthly_category_breakdown"
    /\ top_n = <<1>>
    /\ \E m \in Months :
           /\ Len(RowsOf(Unbounded, m)) = 3
           /\ Len(RowsOf(breakdown, m)) = 2
           /\ \E i \in DOMAIN breakdown :
                  /\ breakdown[i].month = m
                  /\ breakdown[i].category = "Other"
                  /\ breakdown[i].txn_count = 2

\* C3: the unbounded breakdown and the monthly rollup without credits cover
\* the same months, and the breakdown rows of a month sum to the rollup's
\* total_spend of that month.
C3_BreakdownSumsToRollup ==
    (op = "monthly_spend_summary" /\ ~include_credits) =>
        LET u == Unbounded
        IN  /\ {u[i].month : i \in DOMAIN u}
                   = {monthly[i].month : i \in DOMAIN monthly}
            /\ \A i \in DOMAIN monthly :
                   SpendUnits(RowsOf(u, monthly[i].month))
                       = InUnits(monthly[i].total_spend)

\* A month with two spending categories, a zero amount and a credit in the
\* other month only.
C3_Witness ==
    /\ op = "monthly_spend_summary"
    /\ ~include_credits
    /\ Len(monthly) = 1
    /\ Len(RowsOf(Unbounded, monthly[1].month)) = 2
    /\ \E j \in DOMAIN txns :
           txns[j].month # monthly[1].month /\ txns[j].amount.c >= 0

\* C5: with include_credits every row of the month contributes its absolute
\* value, so total_spend is the sum of |amount| over the month's rows and is
\* never negative; txn_count counts all the month's rows.
C5_CreditsAbsoluteSum ==
    (op = "monthly_spend_summary" /\ include_credits) =>
        \A i \in DOMAIN monthly :
            LET r == monthly[i]
            IN  /\ InUnits(r.total_spend) = SumAbsUnits(MonthIdx(r.month))
                /\ r.total_spend.c >= 0
                /\ r.txn_count = Cardinality(MonthIdx(r.month))

\* The first spending row of category c in month m.
FirstSeen(m, c) ==
    CHOOSE i \in DebitIdx(m) :
        /\ txns[i].category = c
        /\ \A j \in DebitIdx(m) : txns[j].category = c => i <= j

Spending(m, c) == \E i \in DebitIdx(m) : txns[i].category = c

\* The spend of category c in month m: the sum of its negative amounts.
CategorySpend(m, c) ==
    SumAbsUnits({i \in DebitIdx(m) : txns[i].category = c})

Tied(m, a, b) ==
    /\ a # b
    /\ Spending(m, a)
    /\ Spending(m, b)
    /\ CategorySpend(m, a) = CategorySpend(m, b)

Kept(m, c) ==
    \E i \in DOMAIN breakdown :
        breakdown[i].month = m /\ breakdown[i].category = c

NamedCategories == Categories \ {"Other"}

\* C8 as stated: of two categories of a month with identical spend, the one
\* whose first transaction comes earlier in the input has the better rank,
\* so the later one is kept only if the earlier one is.
C8_TieByInputOrder ==
    (op = "monthly_category_breakdown" /\ top_n # <<>>) =>
        \A m \in Months : \A a, b \in NamedCategories :
            (Tied(m, a, b) /\ FirstSeen(m, a) < FirstSeen(m, b) /\ Kept(m, b))
                => Kept(m, a)

\* C8 as the code has it: of two categories of a month with identical spend,
\* the one whose name sorts first has the better rank (the grouped frame is
\* in category order and ties keep frame order), so the other is kept only
\* if it is.
C8_TieByCategoryName ==
    (op = "monthly_category_breakdown" /\ top_n # <<>>) =>
        \A m \in Months : \A a, b \in NamedCategories :
            (Tied(m, a, b) /\ StrLess(a, b) /\ Kept(m, b)) => Kept(m, a)

\* Two tied categories at the cutoff, the one named later seen first: the
\* one named first is kept, the other collapsed.
C8_Witness ==
    /\ op = "monthly_category_breakdown"
    /\ top_n # <<>>
    /\ \E m \in Months : \E a, b \in NamedCategories :
           /\ Tied(m, a, b)
           /\ StrLess(a, b)
           /\ FirstSeen(m, b) < FirstSeen(m, a)
           /\ Kept(m, a)
           /\ ~Kept(m, b)

NumCategories(m) == Cardinality({txns[i].category : i \in DebitIdx(m)})

\* C9: a month with at most top_n spending categories has exactly the rows of
\* the unbounded breakdown (no "Other" row added), whatever happens to other
\* months; a month with more has top_n rows of the unbounded breakdown and
\* exactly one more row, "Other", holding the rest.
C9_CollapseOnlyBeyondTopN ==
    (op = "monthly_category_breakdown" /\ top_n # <<>>) =>
        LET u == Unbounded
        IN  \A m \in Months :
            LET got  == RowsOf(breakdown, m)
                full == RowsOf(u, m)
            IN  IF top_n[1] >= NumCategories(m)
                THEN got = full
                ELSE /\ Len(got) = top_n[1] + 1
                     /\ \E i \in DOMAIN got :
                            LET kept == Remove(got, i)
                            IN  /\ got[i].category = "Other"
                                /\ Range(kept) \subseteq Range(full)
                                /\ Cardinality(Range(kept)) = top_n[1]
                                /\ InUnits(got[i].spend)
                                       = SpendUnits(full) - SpendUnits(kept)
                                /\ got[i].txn_count
                                       = CountSum(full) - CountSum(kept)

\* One month collapsed and another, with a single category, left as it is.
C9_Witness ==
    /\ op = "monthly_category_breakdown"
    /\ top_n = <<1>>
    /\ \E m1, m2 \in Months :
           /\ NumCategories(m1) = 2
           /\ Len(RowsOf(breakdown, m1)) = 2
           /\ NumCategories(m2) = 1
           /\ RowsOf(breakdown, m2) = RowsOf(Unbounded, m2)
           /\ Len(RowsOf(breakdown, m2)) = 1

----------------------------------------------------------------------------
(* Statement Loader: load_chase_statement *)

\* A missing cell, as read_csv returns it.
NaN == "nan"

\* Mutant of expected_cols: the Memo column not required.
expected_cols_NoMemo ==
    {"Transaction Date", "Post Date", "Description", "Category", "Type",
     "Amount"}

expected_cols ==
    {"Transaction Date", "Post Date", "Description", "Category", "Type",
     "Amount", "Memo"}

\* str.strip() and str.upper() on the strings of the model.
Strip(s) ==
    CASE s = "B " -> "B"
      [] s = " coffee shop" -> "coffee shop"
      [] s = " COFFEE SHOP" -> "COFFEE SHOP"
      [] s = "Payment " -> "Payment"
      [] OTHER -> s

Upper(s) ==
    CASE s = " coffee shop" -> " COFFEE SHOP"
      [] s = "Grocer" -> "GROCER"
      [] OTHER -> s

\* to_period("M").astype(str): "YYYY-MM"
MonthString(d) ==
    ToString(d.year) \o "-" \o (IF d.month < 10 THEN "0" ELSE "")
        \o ToString(d.month)

\* str(x) of the float read_csv parsed from the cell: the shortest numeral of
\* the value, with at least one fractional digit ("-10.00" gives "-10.0").
RECURSIVE FloatStr(_)
FloatStr(x) ==
    IF x.e = 0 THEN Dec(x.c * 10, 1)
    ELSE IF x.e > 1 /\ x.c % 10 = 0 THEN FloatStr(Dec(x.c \div 10, x.e - 1))
    ELSE x

\* One row of the returned frame.
CleanRow(r, card) ==
    LET amount == FloatStr(r.Amount)
        row == [transaction_date |-> r.TransactionDate,
                post_date |-> r.PostDate,
                month |-> MonthString(r.TransactionDate),
                merchant |-> Strip(Upper(r.Description)),
                category |-> Strip(IF r.Category = NaN THEN "Uncategorized"
                                   ELSE r.Category),
                type |-> Strip(r.Type),
                amount |-> amount,
                is_credit |-> DecLess(Zero, amount),
                Memo |-> r.Memo]
    IN  IF card # <<>> THEN [card |-> card[1]] @@ row ELSE row

\* The exception raised (or NoError) and the frame returned (none on error).
load_chase_statement(columns, rows, card) ==
    LET missing == expected_cols \ columns
    IN  IF missing # {}
        THEN [error |-> [type |-> "ValueError", missing |-> missing],
              frame |-> <<>>]
        ELSE [error |-> NoError,
              frame |-> [i \in DOMAIN rows |-> CleanRow(rows[i], card)]]

MaxCsvRows == 2

\* Headers: the expected columns and two more a statement may carry.
CsvColumns == expected_cols \cup {"Balance", "memo"}

Date(y, m, d) == [year |-> y, month |-> m, day |-> d]

RawRow(date, description, category, type, amount) ==
    [TransactionDate |-> date, PostDate |-> date, Description |-> description,
     Category |-> category, Type |-> type, Amount |-> amount, Memo |-> NaN]

\* Statement rows: -10.00, -5.5, -1.005, a payment of 20 and a second month.
RawRows ==
    {RawRow(Date(2024, 1, 15), " coffee shop", "A", "Sale", Dec(-1000, 2)),
     RawRow(Date(2024, 1, 20), "Grocer", NaN, "Sale", Dec(-55, 1)),
     RawRow(Date(2024, 2, 1), "Grocer", "B ", "Sale", Dec(-1005, 3)),
     RawRow(Date(2024, 2, 3), "AUTOPAY", "A", "Payment ", Dec(20, 0))}

InitLoad ==
    /\ csv_columns \in SUBSET CsvColumns
    /\ csv_rows \in SeqsUpTo(RawRows, MaxCsvRows)
    /\ card_name = <<>>
    /\ error = NoError
    /\ txns = <<>>
    /\ NotCalled
    /\ NoFormat /\ NoStore /\ NoPipeline

LoadChaseStatement ==
    /\ op = "none"
    /\ \E card \in {<<>>, <<"Chase Card">>} :
        LET r == load_chase_statement(csv_columns, csv_rows, card)
        IN  /\ card_name' = card
            /\ error' = r.error
            /\ txns' = r.frame
    /\ op' = "load_chase_statement"
    /\ UNCHANGED <<csv_columns, csv_rows, include_credits, top_n, monthly,
                   breakdown, frame, formatted, views, saved, db, year,
                   queried, metrics, cols, cents, dollars, pc>>

NextLoad == LoadChaseStatement

SpecLoad == InitLoad /\ [][NextLoad]_vars

\* C4: a header lacking any of the seven expected columns ends in the
\* schema error (the ValueError "Missing columns") reporting exactly the
\* expected columns that are absent, with no transaction returned; a header
\* holding all seven, extra columns or not, raises no such error.
C4_SchemaError ==
    op = "load_chase_statement" =>
        LET seven == {"Transaction Date", "Post Date", "Description",
                      "Category", "Type", "Amount", "Memo"}
        IN  IF seven \subseteq csv_columns
            THEN error = NoError /\ Len(txns) = Len(csv_rows)
            ELSE /\ error.type = "ValueError"
                 /\ error.missing = seven \ csv_columns
                 /\ txns = <<>>

\* The spec's example: only "Memo" is absent from a statement that has rows.
C4_Witness ==
    /\ op = "load_chase_statement"
    /\ csv_rows # <<>>
    /\ csv_columns = CsvColumns \ {"Memo"}
    /\ error = [type |-> "ValueError", missing |-> {"Memo"}]
    /\ txns = <<>>

----------------------------------------------------------------------------
(* Money formatting: format_money_columns and cents_to_dollars *)

\* floor(n / d + 1/2) for n >= 0, d > 0
HalfUpDiv(n, d) == (2 * n + d) \div (2 * d)

\* n / d to the nearest integer, an exact half to the even neighbour
HalfEvenDiv(n, d) ==
    LET q == n \div d
        r == n % d
    IN  IF 2 * r > d \/ (2 * r = d /\ q % 2 = 1) THEN q + 1 ELSE q

Sign(a) == IF a < 0 THEN -1 ELSE 1

\* isinstance(x, (Decimal, int, float)): a Decimal or a Decimal quotient
IsNumber(x) == "c" \in DOMAIN x \/ "num" \in DOMAIN x

\* Mutant of Quantize: the context's default rounding, ROUND_HALF_EVEN.
Quantize_HalfEven(x) ==
    IF "num" \in DOMAIN x
    THEN Dec(Sign(x.num) * HalfEvenDiv(Abs(x.num) * 100, x.den), 2)
    ELSE IF x.e <= 2 THEN Dec(Scaled(x, 2), 2)
    ELSE Dec(Sign(x.c) * HalfEvenDiv(Abs(x.c), Pow10(x.e - 2)), 2)

\* Decimal(str(x)).quantize(Decimal('0.01'), rounding=ROUND_HALF_UP): two
\* fractional digits, an exact half rounded away from zero.
Quantize(x) ==
    IF "num" \in DOMAIN x
    THEN Dec(Sign(x.num) * HalfUpDiv(Abs(x.num) * 100, x.den), 2)
    ELSE IF x.e <= 2 THEN Dec(Scaled(x, 2), 2)
    ELSE Dec(Sign(x.c) * HalfUpDiv(Abs(x.c), Pow10(x.e - 2)), 2)

format_money_columns(df, columns) ==
    [i \in DOMAIN df |->
        [col \in DOMAIN df[i] |->
            IF col \in columns /\ IsNumber(df[i][col])
            THEN Quantize(df[i][col])
            ELSE df[i][col]]]

\* numpy's round(2) of a float: two decimals, half to even; the float is
\* carried as its shortest numeral.
Round2(x) ==
    IF x.e <= 2 THEN FloatStr(x)
    ELSE FloatStr(Dec(Sign(x.c) * HalfEvenDiv(Abs(x.c), Pow10(x.e - 2)), 2))

\* Mutant of CentsToFloat: floor division, cents // 100.
CentsToFloat_Floor(c) == Round2(Dec(c \div 100, 0))

\* (cents / 100.0).round(2); a float holds cents / 100 to within its last
\* binary digit, which the shortest numeral does not show.
CentsToFloat(c) == Round2(Dec(c, 2))

cents_to_dollars(df, col) ==
    [i \in DOMAIN df |->
        [k \in DOMAIN df[i] |->
            IF k = col THEN CentsToFloat(df[i][k]) ELSE df[i][k]]]

MaxFrameRows == 1

\* 1.005, -1.005, 1.004, 1.015, 2.5, 7, 10/3, 201/200 and a text cell
MoneyValues ==
    {Dec(1005, 3), Dec(-1005, 3), Dec(1004, 3), Dec(1015, 3), Dec(25, 1),
     Dec(7, 0), DecDiv(Dec(10, 0), 3), DecDiv(Dec(201, 1), 20),
     [text |-> "n/a"]}

MoneyFrames ==
    SeqsUpTo([{"spend", "avg_per_transaction"} -> MoneyValues], MaxFrameRows)

ColumnLists ==
    {{}, {"spend"}, {"spend", "avg_per_transaction"}, {"spend", "amount"}}

CentsFrames ==
    SeqsUpTo([month : {"2024-01"}, spend_cents : {0, 5, 150, 1999}],
             MaxFrameRows)

InitFormat ==
    /\ NoFormat
    /\ txns = <<>>
    /\ NotCalled
    /\ NoFile /\ NoStore /\ NoPipeline

\* An argument or a result not there yet is <<>>, one that is there <<v>>.
FormatMoneyColumns ==
    /\ formatted = <<>>
    /\ \E df \in MoneyFrames, columns \in ColumnLists :
        /\ frame' = <<df>>
        /\ cols' = columns
        /\ formatted' = <<format_money_columns(df, columns)>>
    /\ UNCHANGED <<op, csv_columns, csv_rows, error, txns, include_credits,
                   top_n, monthly, breakdown, views, saved, db, year, queried,
                   metrics, card_name, cents, dollars, pc>>

CentsToDollars ==
    /\ dollars = <<>>
    /\ \E df \in CentsFrames :
        /\ cents' = <<df>>
        /\ dollars' = <<cents_to_dollars(df, "spend_cents")>>
    /\ UNCHANGED <<op, csv_columns, csv_rows, error, txns, include_credits,
                   top_n, monthly, breakdown, views, saved, db, year, queried,
                   metrics, card_name, frame, cols, formatted, pc>>

NextFormat == FormatMoneyColumns \/ CentsToDollars

SpecFormat == InitFormat /\ [][NextFormat]_vars

\* A number as the ratio of two integers, the second positive.
Numerator(x) == IF "num" \in DOMAIN x THEN x.num ELSE x.c

Denominator(x) == IF "num" \in DOMAIN x THEN x.den ELSE Pow10(x.e)

\* y is x to the nearest cent, an exact half-cent taken up in magnitude (the
\* decimal module's ROUND_HALF_UP), written with two fractional digits.
NearestCentHalfUp(x, y) ==
    LET n    == Numerator(x)
        d    == Denominator(x)
        diff == Abs(100 * n - y.c * d)
    IN  /\ DOMAIN y = {"c", "e"}
        /\ y.e = 2
        /\ 2 * diff <= d
        /\ (2 * diff = d) => (Abs(y.c) * d > 100 * Abs(n))

\* C7: format_money_columns maps every number of a listed column to the
\* nearest multiple of 0.01 with two decimals, an exact half-cent rounded up
\* (1.005 gives 1.01), and leaves every other cell as it is; integer cents
\* converted to dollars give exactly cents / 100 (150 gives 1.50).
C7_RoundHalfUp ==
    /\ formatted # <<>> =>
           /\ Len(formatted[1]) = Len(frame[1])
           /\ \A i \in DOMAIN frame[1] : \A col \in DOMAIN frame[1][i] :
                  LET x == frame[1][i][col]
                      y == formatted[1][i][col]
                  IN  IF col \in cols /\ IsNumber(x)
                      THEN NearestCentHalfUp(x, y)
                      ELSE y = x
    /\ dollars # <<>> =>
           /\ Len(dollars[1]) = Len(cents[1])
           /\ \A i \in DOMAIN cents[1] :
                  /\ dollars[1][i].spend_cents.c
                         * Pow10(2 - dollars[1][i].spend_cents.e)
                         = cents[1][i].spend_cents
                  /\ dollars[1][i].month = cents[1][i].month

\* The spec's examples: 1.005 formatted to 1.01 beside an unlisted column
\* left alone, and 150 cents converted to 1.5 dollars.
C7_Witness ==
    /\ formatted # <<>>
    /\ dollars # <<>>
    /\ cols = {"spend"}
    /\ \E i \in DOMAIN frame[1] :
           /\ frame[1][i]["spend"] = Dec(1005, 3)
           /\ formatted[1][i]["spend"] = Dec(101, 2)
           /\ frame[1][i]["avg_per_transaction"] = Dec(1005, 3)
           /\ formatted[1][i]["avg_per_transaction"] = Dec(1005, 3)
    /\ \E i \in DOMAIN cents[1] :
           /\ cents[1][i].spend_cents = 150
           /\ dollars[1][i].spend_cents = Dec(15, 1)

----------------------------------------------------------------------------
(* The main pipeline: the __main__ block of main.py, one step per statement *)

MainTopN == 10

\* pd.read_sql("SELECT * FROM <view>", conn): the view's rows, or the
\* database error when the store has no such view.
ReadView(name) ==
    IF name \in DOMAIN views
    THEN [error |-> NoError, frame |-> views[name]]
    ELSE [error |-> [type |-> "DatabaseError", missing |-> {name}],
          frame |-> <<>>]

\* What v_monthly_summary may hold: nothing, the rollup of an earlier
\* statement, or totals the store keeps unrounded.
ViewMonthlyFrames ==
    {<<>>,
     <<[month |-> "2023-12", total_spend |-> Dec(4250, 2), txn_count |-> 3,
        avg_per_transaction |-> Dec(1417, 2)]>>,
     <<[month |-> "2024-01", total_spend |-> Dec(12345, 3), txn_count |-> 2,
        avg_per_transaction |-> Dec(61725, 4)]>>}

\* The store when the pipeline runs: without views, with the two views the
\* analytics script reads, or with the view the pipeline reads as well.
StoreViews ==
    {<<>>}
    \cup {[v \in {"v_monthly_summary", "v_monthly_category"} |->
              IF v = "v_monthly_summary" THEN m ELSE <<>>] :
          m \in ViewMonthlyFrames}
    \cup {[v \in {"v_monthly_summary", "v_monthly_category",
                  "v_monthly_category_breakdown"} |->
              IF v = "v_monthly_summary" THEN m ELSE <<>>] :
          m \in ViewMonthlyFrames}

InitMain ==
    /\ pc = "start"
    /\ csv_columns \in {CsvColumns, CsvColumns \ {"Memo"}}
    /\ csv_rows \in SeqsUpTo(RawRows, MaxCsvRows)
    /\ views \in StoreViews
    /\ saved = <<>>
    /\ card_name = <<>>
    /\ error = NoError
    /\ txns = <<>>
    /\ NotCalled
    /\ NoFormat /\ NoStore

\* txns = load_chase_statement(input_csv, card_name="Chase Card")
MainLoad ==
    /\ pc = "start"
    /\ LET r == load_chase_statement(csv_columns, csv_rows, <<"Chase Card">>)
       IN  /\ card_name' = <<"Chase Card">>
           /\ error' = r.error
           /\ txns' = r.frame
           /\ pc' = IF r.error = NoError THEN "loaded" ELSE "failed"
    /\ UNCHANGED <<op, csv_columns, csv_rows, include_credits, top_n, monthly,
                   breakdown, frame, formatted, views, saved, db, year,
                   queried, metrics, cols, cents, dollars>>

\* monthly = monthly_spend_summary(txns, include_credits=False)
MainMonthly ==
    /\ pc = "loaded"
    /\ include_credits' = FALSE
    /\ monthly' = monthly_spend_summary(txns, FALSE)
    /\ pc' = "summarised"
    /\ UNCHANGED <<op, csv_columns, csv_rows, error, txns, top_n, breakdown,
                   frame, formatted, views, saved, db, year, queried, metrics,
                   card_name, cols, cents, dollars>>

\* breakdown = monthly_category_breakdown(txns, top_n=10)
MainBreakdown ==
    /\ pc = "summarised"
    /\ top_n' = <<MainTopN>>
    /\ breakdown' = monthly_category_breakdown(txns, <<MainTopN>>)
    /\ pc' = "broken_down"
    /\ UNCHANGED <<op, csv_columns, csv_rows, error, txns, include_credits,
                   monthly, frame, formatted, views, saved, db, year, queried,
                   metrics, card_name, cols, cents, dollars>>

\* txns = format_money_columns(txns, ["amount"])
MainFormatTxns ==
    /\ pc = "broken_down"
    /\ txns' = format_money_columns(txns, {"amount"})
    /\ pc' = "txns_formatted"
    /\ UNCHANGED <<op, csv_columns, csv_rows, error, include_credits, top_n,
                   monthly, breakdown, frame, formatted, views, saved, db,
                   year, queried, metrics, card_name, cols, cents, dollars>>

\* monthly = format_money_columns(monthly, ["total_spend", "avg_per_transaction"])
MainFormatMonthly ==
    /\ pc = "txns_formatted"
    /\ monthly' = format_money_columns(monthly,
                      {"total_spend", "avg_per_transaction"})
    /\ pc' = "monthly_formatted"
    /\ UNCHANGED <<op, csv_columns, csv_rows, error, txns, include_credits,
                   top_n, breakdown, frame, formatted, views, saved, db, year,
                   queried, metrics, card_name, cols, cents, dollars>>

\* breakdown = format_money_columns(breakdown, ["spend", "avg_per_transaction"])
MainFormatBreakdown ==
    /\ pc = "monthly_formatted"
    /\ breakdown' = format_money_columns(breakdown,
                        {"spend", "avg_per_transaction"})
    /\ pc' = "breakdown_formatted"
    /\ UNCHANGED <<op, csv_columns, csv_rows, error, txns, include_credits,
                   top_n, monthly, frame, formatted, views, saved, db, year,
                   queried, metrics, card_name, cols, cents, dollars>>

\* monthly = pd.read_sql("SELECT * FROM v_monthly_summary", conn)
MainReadMonthly ==
    /\ pc = "breakdown_formatted"
    /\ LET r == ReadView("v_monthly_summary")
       IN  /\ error' = r.error
           /\ monthly' = IF r.error = NoError THEN r.frame ELSE monthly
           /\ pc' = IF r.error = NoError THEN "monthly_read" ELSE "failed"
    /\ UNCHANGED <<op, csv_columns, csv_rows, txns, include_credits, top_n,
                   breakdown, frame, formatted, views, saved, db, year,
                   queried, metrics, card_name, cols, cents, dollars>>

\* category = pd.read_sql("SELECT * FROM v_monthly_category_breakdown", conn);
\* the name category is never read again.
MainReadCategory ==
    /\ pc = "monthly_read"
    /\ LET r == ReadView("v_monthly_category_breakdown")
       IN  /\ error' = r.error
           /\ pc' = IF r.error = NoError THEN "category_read" ELSE "failed"
    /\ UNCHANGED <<op, csv_columns, csv_rows, txns, include_credits, top_n,
                   monthly, breakdown, frame, formatted, views, saved, db,
                   year, queried, metrics, card_name, cols, cents, dollars>>

\* plot_monthly_spend_plotly(monthly); plot_monthly_category_breakdown_plotly(
\* breakdown): both plot a copy of their argument.
MainPlot ==
    /\ pc = "category_read"
    /\ pc' = "plotted"
    /\ UNCHANGED <<op, csv_columns, csv_rows, error, txns, include_credits,
                   top_n, monthly, breakdown, frame, formatted, views, saved,
                   db, year, queried, metrics, card_name, cols, cents, dollars>>

\* df.to_csv(output_path, index=False)
save_df(df, output_path) == (output_path :> df) @@ saved

\* save_df(txns, "output/transactions_clean.csv")
MainSaveTxns ==
    /\ pc = "plotted"
    /\ saved' = save_df(txns, "output/transactions_clean.csv")
    /\ pc' = "txns_saved"
    /\ UNCHANGED <<op, csv_columns, csv_rows, error, txns, include_credits,
                   top_n, monthly, breakdown, frame, formatted, views, db,
                   year, queried, metrics, card_name, cols, cents, dollars>>

\* save_df(monthly, "output/monthly_summary.csv")
MainSaveMonthly ==
    /\ pc = "txns_saved"
    /\ saved' = save_df(monthly, "output/monthly_summary.csv")
    /\ pc' = "monthly_saved"
    /\ UNCHANGED <<op, csv_columns, csv_rows, error, txns, include_credits,
                   top_n, monthly, breakdown, frame, formatted, views, db,
                   year, queried, metrics, card_name, cols, cents, dollars>>

\* save_df(breakdown, "output/monthly_category_breakdown.csv")
MainSaveBreakdown ==
    /\ pc = "monthly_saved"
    /\ saved' = save_df(breakdown, "output/monthly_category_breakdown.csv")
    /\ pc' = "done"
    /\ UNCHANGED <<op, csv_columns, csv_rows, error, txns, include_credits,
                   top_n, monthly, breakdown, frame, formatted, views, db,
                   year, queried, metrics, card_name, cols, cents, dollars>>

NextMain ==
    \/ MainLoad
    \/ MainMonthly
    \/ MainBreakdown
    \/ MainFormatTxns
    \/ MainFormatMonthly
    \/ MainFormatBreakdown
    \/ MainReadMonthly
    \/ MainReadCategory
    \/ MainPlot
    \/ MainSaveTxns
    \/ MainSaveMonthly
    \/ MainSaveBreakdown

SpecMain == InitMain /\ [][NextMain]_vars

\* The transactions of the statement as the run loaded them.
LoadedTxns ==
    load_chase_statement(csv_columns, csv_rows, <<"Chase Card">>).frame

TwoDecimals(x) == DOMAIN x = {"c", "e"} /\ x.e = 2

\* C6: when the three tables are saved, every money column of each holds
\* values of exactly two decimals, and the saved monthly summary and category
\* breakdown are the ones derived from the transactions loaded in this run.
C6_SavedTablesRoundedAndDerived ==
    pc = "done" =>
        LET t == saved["output/transactions_clean.csv"]
            m == saved["output/monthly_summary.csv"]
            b == saved["output/monthly_category_breakdown.csv"]
        IN  /\ \A i \in DOMAIN t : TwoDecimals(t[i].amount)
            /\ \A i \in DOMAIN m :
                   /\ TwoDecimals(m[i].total_spend)
                   /\ TwoDecimals(m[i].avg_per_transaction)
            /\ \A i \in DOMAIN b :
                   /\ TwoDecimals(b[i].spend)
                   /\ TwoDecimals(b[i].avg_per_transaction)
            /\ m = format_money_columns(
                       monthly_spend_summary(LoadedTxns, FALSE),
                       {"total_spend", "avg_per_transaction"})
            /\ b = format_money_columns(
                       monthly_category_breakdown(LoadedTxns, <<MainTopN>>),
                       {"spend", "avg_per_transaction"})

----------------------------------------------------------------------------
(* Yearly metrics: load_year_metrics of agent_yearly_report.py.  A TEXT     *)
(* value that the queries cut with substr is a sequence of characters.     *)

\* The characters of a date, in code-point order.
CharOrder == <<"-", "0", "1", "2", "3", "4", "5", "6", "7", "8", "9">>

CharIndex(ch) == CHOOSE i \in DOMAIN CharOrder : CharOrder[i] = ch

RECURSIVE TextLess(_, _)
TextLess(a, b) ==
    IF b = <<>> THEN FALSE
    ELSE IF a = <<>> THEN TRUE
    ELSE IF a[1] # b[1] THEN CharIndex(a[1]) < CharIndex(b[1])
    ELSE TextLess(Tail(a), Tail(b))

\* str(year)
RECURSIVE IntToText(_)
IntToText(n) ==
    IF n < 10 THEN <<CharOrder[n + 2]>>
    ELSE IntToText(n \div 10) \o <<CharOrder[(n % 10) + 2]>>

\* SQLite's substr(text, start, length)
substr(text, start, length) ==
    SubSeq(text, start, IF start + length - 1 > Len(text) THEN Len(text)
                        ELSE start + length - 1)

Null == "NULL"

\* COALESCE(category_final, category_chase, 'Uncategorized')
Coalesce(t) ==
    IF t.category_final # Null THEN t.category_final
    ELSE IF t.category_chase # Null THEN t.category_chase
    ELSE "Uncategorized"

\* Mutant of SpendCents: -amount_cents for every row, credits included.
SpendCents_NoCase(t) == -t.amount_cents

\* CASE WHEN amount_cents < 0 THEN -amount_cents ELSE 0 END
SpendCents(t) == IF t.amount_cents < 0 THEN -t.amount_cents ELSE 0

RECURSIVE SumSpendCents(_)
SumSpendCents(rows) ==
    IF rows = <<>> THEN 0
    ELSE SpendCents(rows[1]) + SumSpendCents(Tail(rows))

\* WHERE substr(transaction_date, 1, 4) = ?, with params=(str(year),)
YearRows(store, y) ==
    SelectSeq(store.transactions,
              LAMBDA t : substr(t.transaction_date, 1, 4) = IntToText(y))

\* SELECT SUM(...) AS spend_cents, COUNT(*) AS txn_count: SUM over no row is
\* NULL, here <<>>.
TotalQuery(store, y) ==
    LET rows == YearRows(store, y)
    IN  [spend_cents |-> IF rows = <<>> THEN <<>> ELSE <<SumSpendCents(rows)>>,
         txn_count |-> Len(rows)]

RECURSIVE SortedTexts(_)
SortedTexts(S) ==
    IF S = {} THEN <<>>
    ELSE LET m == CHOOSE x \in S : \A y \in S : ~TextLess(y, x)
         IN  <<m>> \o SortedTexts(S \ {m})

\* ... GROUP BY month ORDER BY month
ByMonthQuery(store, y) ==
    LET rows == YearRows(store, y)
        keys == SortedTexts({substr(rows[i].transaction_date, 1, 7) :
                                i \in DOMAIN rows})
    IN  [k \in DOMAIN keys |->
            [month |-> keys[k],
             spend_cents |-> SumSpendCents(SelectSeq(rows,
                 LAMBDA t : substr(t.transaction_date, 1, 7) = keys[k]))]]

\* ORDER BY spend_cents DESC: every order of the rows in which spend never
\* increases (SQL leaves the order of equal rows open).
RECURSIVE DescOrders(_)
DescOrders(S) ==
    IF S = {} THEN {<<>>}
    ELSE UNION {{<<x>> \o r : r \in DescOrders(S \ {x})} :
                x \in {y \in S : \A z \in S : z.spend_cents <= y.spend_cents}}

\* ... GROUP BY category: the groups, before ORDER BY
CategoryGroups(store, y) ==
    LET rows == YearRows(store, y)
    IN  {[category |-> c,
          spend_cents |-> SumSpendCents(SelectSeq(rows,
              LAMBDA t : Coalesce(t) = c))] :
         c \in {Coalesce(rows[i]) : i \in DOMAIN rows}}

\* FROM transactions t JOIN merchants m ON t.merchant_id = m.id WHERE ...:
\* one row per pair of a transaction of the year and a merchant of its id
RECURSIVE Joined(_, _)
Joined(rows, merchants) ==
    IF rows = <<>> THEN <<>>
    ELSE LET ms == SelectSeq(merchants, LAMBDA m : m.id = rows[1].merchant_id)
         IN  [i \in DOMAIN ms |->
                 [name |-> ms[i].name, amount_cents |-> rows[1].amount_cents]]
             \o Joined(Tail(rows), merchants)

\* ... GROUP BY m.name: the groups, before ORDER BY and LIMIT
MerchantGroups(store, y) ==
    LET j == Joined(YearRows(store, y), store.merchants)
    IN  {[merchant |-> n,
          spend_cents |-> SumSpendCents(SelectSeq(j, LAMBDA r : r.name = n))] :
         n \in {j[i].name : i \in DOMAIN j}}

TopMerchantsLimit == 15

\* LIMIT 15
Limit(rows) ==
    SubSeq(rows, 1, IF Len(rows) > TopMerchantsLimit THEN TopMerchantsLimit
                    ELSE Len(rows))

\* total["spend_cents"] or 0
OrZero(v) == IF v = <<>> THEN 0 ELSE v[1]

\* .rename(columns={"spend_cents": "spend"}) after cents_to_dollars
Renamed(df) ==
    [i \in DOMAIN df |->
        [k \in (DOMAIN df[i] \ {"spend_cents"}) \cup {"spend"} |->
            IF k = "spend" THEN df[i]["spend_cents"] ELSE df[i][k]]]

\* The dict returned, from the four query results.
YearMetrics(y, q) ==
    [year |-> y,
     total_spend |-> CentsToFloat(OrZero(q.total.spend_cents)),
     txn_count |-> q.total.txn_count,
     by_month |-> Renamed(cents_to_dollars(q.by_month, "spend_cents")),
     by_category |-> Renamed(cents_to_dollars(q.by_category, "spend_cents")),
     top_merchants |-> Renamed(cents_to_dollars(q.by_merchant, "spend_cents"))]

MaxDbRows == 2

Pad2(n) == IF n < 10 THEN <<"0">> \o IntToText(n) ELSE IntToText(n)

\* 'YYYY-MM-DD'
IsoDate(y, m, d) ==
    IntToText(y) \o <<"-">> \o Pad2(m) \o <<"-">> \o Pad2(d)

DbRow(date, amount, merchant, final, chase) ==
    [transaction_date |-> date, amount_cents |-> amount,
     merchant_id |-> merchant, category_final |-> final,
     category_chase |-> chase]

\* Transactions of two years: debits, a credit and a zero amount; merchant 9
\* is in no merchants row.
DbRows ==
    {DbRow(IsoDate(2023, 12, 31), -700, 1, "A", "B"),
     DbRow(IsoDate(2024, 1, 15), -1000, 1, "A", "B"),
     DbRow(IsoDate(2024, 1, 20), -500, 2, Null, "B"),
     DbRow(IsoDate(2024, 1, 31), 2000, 2, Null, Null),
     DbRow(IsoDate(2024, 2, 1), -500, 3, Null, Null),
     DbRow(IsoDate(2024, 2, 2), -250, 9, "B", "A"),
     DbRow(IsoDate(2024, 2, 3), 0, 3, "A", Null)}

\* merchants.id is the table's key; two merchants may share a name.
SmallMerchants ==
    <<[id |-> 1, name |-> "ACME"], [id |-> 2, name |-> "BOLT"],
      [id |-> 3, name |-> "ACME"]>>

\* A store with one merchant more than the LIMIT, each with one debit of
\* 2024; the two smallest debits are equal when tie holds.
WideStore(tie) ==
    [transactions |->
        [i \in 1..(TopMerchantsLimit + 1) |->
            DbRow(IsoDate(2024, 3, i),
                  IF tie /\ i = 1 THEN -200 ELSE -100 * i, i, Null, "A")],
     merchants |->
        [i \in 1..(TopMerchantsLimit + 1) |->
            [id |-> i, name |-> "M" \o ToString(i)]]]

Stores ==
    {[transactions |-> t, merchants |-> SmallMerchants] :
        t \in SeqsUpTo(DbRows, MaxDbRows)}
    \cup {WideStore(tie) : tie \in BOOLEAN}

Years == {2023, 2024}

InitYear ==
    /\ db \in Stores
    /\ year = 0
    /\ queried = <<>>
    /\ metrics = <<>>
    /\ txns = <<>>
    /\ NotCalled
    /\ NoFile /\ NoFormat /\ NoPipeline

LoadYearMetrics ==
    /\ op = "none"
    /\ \E y \in Years :
        \E by_category \in DescOrders(CategoryGroups(db, y)) :
            \E by_merchant \in DescOrders(MerchantGroups(db, y)) :
                LET q == [total |-> TotalQuery(db, y),
                          by_month |-> ByMonthQuery(db, y),
                          by_category |-> by_category,
                          by_merchant |-> Limit(by_merchant)]
                IN  /\ year' = y
                    /\ queried' = q
                    /\ metrics' = YearMetrics(y, q)
    /\ op' = "load_year_metrics"
    /\ UNCHANGED <<csv_columns, csv_rows, error, txns, include_credits, top_n,
                   monthly, breakdown, frame, formatted, views, saved, db,
                   card_name, cols, cents, dollars, pc>>

NextYear == LoadYearMetrics

SpecYear == InitYear /\ [][NextYear]_vars

\* The transactions of the store dated in the year asked for, and the
\* spending among them.
YearIdx ==
    {i \in DOMAIN db.transactions :
        SubSeq(db.transactions[i].transaction_date, 1, 4) = IntToText(year)}

RECURSIVE DebitCents(_)
DebitCents(I) ==
    IF I = {} THEN 0
    ELSE LET i == CHOOSE j \in I : TRUE
             a == db.transactions[i].amount_cents
         IN  (IF a < 0 THEN -a ELSE 0) + DebitCents(I \ {i})

CategoryOf(t) ==
    IF t.category_final # Null THEN t.category_final
    ELSE IF t.category_chase # Null THEN t.category_chase
    ELSE "Uncategorized"

RECURSIVE CentsSum(_)
CentsSum(rows) ==
    IF rows = <<>> THEN 0 ELSE rows[1].spend_cents + CentsSum(Tail(rows))

\* C10: in integer cents, the year's total spend is the sum of the negative
\* amounts of the year's transactions, and equals the sum of the by_month
\* rows and the sum of the by_category rows (a row per category_final, else
\* category_chase, else "Uncategorized", holding that category's spend); the
\* top_merchants rows sum to no more than the total; txn_count counts every
\* transaction of the year.
C10_YearMetricsConsistent ==
    op = "load_year_metrics" =>
        LET total == OrZero(queried.total.spend_cents)
        IN  /\ total = DebitCents(YearIdx)
            /\ CentsSum(queried.by_month) = total
            /\ CentsSum(queried.by_category) = total
            /\ \A i \in DOMAIN queried.by_category :
                   queried.by_category[i].spend_cents
                       = DebitCents({j \in YearIdx :
                             CategoryOf(db.transactions[j])
                                 = queried.by_category[i].category})
            /\ CentsSum(queried.by_merchant) <= total
            /\ queried.total.txn_count = Cardinality(YearIdx)

\* A year with a debit, a credit and a debit of a merchant the join drops:
\* the merchants sum to less than the total.
C10_Witness ==
    /\ op = "load_year_metrics"
    /\ \E i, j \in YearIdx :
           /\ db.transactions[i].amount_cents > 0
           /\ db.transactions[j].amount_cents < 0
    /\ queried.by_merchant # <<>>
    /\ CentsSum(queried.by_merchant) < OrZero(queried.total.spend_cents)
    /\ CentsSum(queried.by_month) = OrZero(queried.total.spend_cents)

====
